---- MODULE Spec2Model ----
(***************************************************************************)
(* A model of cards_war.py: the Card / Player / cardsWar classes and the   *)
(* playGame loop with its recursive war resolution (playRound/breakDraw).  *)
(*                                                                         *)
(* Players are numbered 1..n in creation order ("Player i").  A card is a  *)
(* record [number, color] as in class Card; Card() is the rank-0 sentinel. *)
(* The random module is modelled as a generator state rng that selects the *)
(* permutation applied by random.shuffle and advances on every shuffle;    *)
(* the initial state of the generator is chosen freely.                    *)
(***************************************************************************)
EXTENDS Integers, Sequences, FiniteSets, TLC

\* ---- bounds of the model ------------------------------------------------
MaxPlayers == 7        \* playersCount arguments tried: 0..MaxPlayers
MaxSeed == 5           \* states of the random generator: 0..MaxSeed
MaxRounds == 30        \* the playGame loop starts no round once round >= MaxRounds
MaxApiCards == 3       \* cards used when Player is driven through its methods
MaxFindPlayers == 4    \* players when find_winning_players is called on its own
MaxFindRank == 3       \* ranks of the cards it is then given: 0..MaxFindRank

\* ---- program constants --------------------------------------------------
NumRanks == 13         \* range(13) in CreateShuffleDeck
Divisor == 56          \* the assert in cardsWar.__init__
HandMaxLen == 56       \* deque(maxlen=56)
WinScore == 52         \* isWinner: player.score >= 52
Colors == <<"BC", "BS", "RD", "RH">>

VARIABLES
    pc,            \* control point of the program
    playersCount,  \* the argument cardsWar is constructed with
    attrs,         \* attributes of the cardsWar object that exist so far
    players,       \* self.players: the players in creation order
    hand,          \* hand[p]: Player.hand, front of the deque first
    won_cards,     \* won_cards[p]: Player.won_cards
    round,         \* self.round
    score,         \* self.score: the rows of the scoreboard DataFrame
    active,        \* the players argument of the running playRound call
    field,         \* the field argument of the running playRound call
    playedCards,   \* the local playedCards of the running playRound call
    depth,         \* number of playRound frames on the call stack
    rng,           \* state of the random generator
    default_field, \* the list object that is the default of playRound's field
    by_default,    \* the running call's field is that default object
    roundStart,    \* history: cards each player held when the top-level round began
    completed      \* history: number of top-level playRound calls that returned

vars == <<pc, playersCount, default_field, by_default, attrs, players, hand,
          won_cards, round, score, active, field, playedCards, depth, rng,
          roundStart, completed>>

\* ---- sequences ----------------------------------------------------------
Range(s) == {s[i] : i \in 1..Len(s)}

Min(a, b) == IF a < b THEN a ELSE b

\* s[a:b] of Python, 0-based, half open
Slice(s, a, b) == SubSeq(s, Min(a, Len(s)) + 1, Min(b, Len(s)))

\* the elements of s at positions j, j+k, j+2k, ..
Pile(s, j, k) ==
    IF j > Len(s) THEN <<>>
    ELSE [i \in 1..(((Len(s) - j) \div k) + 1) |-> s[j + (i - 1) * k]]

\* s dealt into k piles, the piles stacked in order from pile j on
RECURSIVE PilesFrom(_, _, _)
PilesFrom(s, j, k) ==
    IF j > k THEN <<>> ELSE Pile(s, j, k) \o PilesFrom(s, j + 1, k)

Piles(s, k) == PilesFrom(s, 1, k)

SelectSeqNonSentinel(s) == SelectSeq(s, LAMBDA c : c.number # 0)

\* ---- class Card ---------------------------------------------------------
Card(number, color) == [number |-> number, color |-> color]

Sentinel == Card(0, "0")

Card_gt(a, b) == a.number > b.number

Card_eq(a, b) == a.number = b.number

\* ---- the random module --------------------------------------------------
NextRng(r) == (r + 1) % (MaxSeed + 1)

\* random.shuffle(s) in generator state r: one permutation of s per state,
\* two pile deals whose pile counts the state selects (state 0: s unchanged)
Shuffle(s, r) == Piles(Piles(s, (r % 3) + 1), 2 * (r \div 3) + 1)

\* ---- class Player -------------------------------------------------------
\* a deque with maxlen keeps the rightmost maxlen elements
Deque(s) == IF Len(s) <= HandMaxLen THEN s
            ELSE SubSeq(s, Len(s) - HandMaxLen + 1, Len(s))

PlayerScore(h, w) == Len(h) + Len(w)

isEmptyHand(h) == Len(h) = 0

refill_hand(h, w, r) ==
    [hand |-> Deque(Shuffle(w, r)), won_cards |-> <<>>, rng |-> NextRng(r)]

\* playCard that returns the front card of the hand and leaves it there
playCard_peek(h, w, r) ==
    IF PlayerScore(h, w) = 0
    THEN [card |-> Sentinel, hand |-> h, won_cards |-> w, rng |-> r]
    ELSE LET st == IF isEmptyHand(h) THEN refill_hand(h, w, r)
                   ELSE [hand |-> h, won_cards |-> w, rng |-> r]
         IN [card |-> Head(st.hand), hand |-> st.hand,
             won_cards |-> st.won_cards, rng |-> st.rng]

\* playCard with the sentinel returned whenever the hand is empty
playCard_hand_only(h, w, r) ==
    IF isEmptyHand(h)
    THEN [card |-> Sentinel, hand |-> h, won_cards |-> w, rng |-> r]
    ELSE [card |-> Head(h), hand |-> Tail(h), won_cards |-> w, rng |-> r]

playCard(h, w, r) ==
    IF PlayerScore(h, w) = 0
    THEN [card |-> Sentinel, hand |-> h, won_cards |-> w, rng |-> r]
    ELSE LET st == IF isEmptyHand(h) THEN refill_hand(h, w, r)
                   ELSE [hand |-> h, won_cards |-> w, rng |-> r]
         IN [card |-> Head(st.hand), hand |-> Tail(st.hand),
             won_cards |-> st.won_cards, rng |-> st.rng]

\* ---- class cardsWar: pure parts -----------------------------------------
\* the check the docstring of __init__ describes: a divisor of 52
ValidCount_52(n) == n >= 2 /\ WinScore % n = 0

ValidCount(n) == n >= 2 /\ Divisor % n = 0

SortedDeck ==
    [i \in 1..(NumRanks * Len(Colors)) |->
        Card(((i - 1) \div Len(Colors)) + 1, Colors[((i - 1) % Len(Colors)) + 1])]

CreateShuffleDeck(r) == Shuffle(SortedDeck, r)

\* [player.playCard() for player in ps], left to right, on the state st.
\* The singleton sets bind the result of a call once, by value.
RECURSIVE get_played_cards(_, _)
get_played_cards(ps, st) ==
    IF ps = <<>> THEN st
    ELSE LET p == Head(ps)
             after == {[hand      |-> [st.hand EXCEPT ![p] = r.hand],
                        won_cards |-> [st.won_cards EXCEPT ![p] = r.won_cards],
                        rng       |-> r.rng,
                        cards     |-> Append(st.cards, r.card)] :
                          r \in {playCard(st.hand[p], st.won_cards[p], st.rng)}}
         IN CHOOSE res \in {get_played_cards(Tail(ps), a) : a \in after} : TRUE

PlayAll(ps) ==
    get_played_cards(ps, [hand |-> hand, won_cards |-> won_cards,
                          rng |-> rng, cards |-> <<>>])

\* find_winning_players without the test that skips the sentinel
RECURSIVE FindFrom_no_skip(_, _, _, _, _)
FindFrom_no_skip(ps, cards, i, winingPlayers, highestCard) ==
    IF i > Len(cards) THEN winingPlayers
    ELSE IF Card_gt(cards[i], highestCard)
         THEN FindFrom_no_skip(ps, cards, i + 1, <<ps[i]>>, cards[i])
    ELSE IF Card_eq(cards[i], highestCard)
         THEN FindFrom_no_skip(ps, cards, i + 1, Append(winingPlayers, ps[i]), highestCard)
    ELSE FindFrom_no_skip(ps, cards, i + 1, winingPlayers, highestCard)

\* find_winning_players that keeps only the first player of a tie
RECURSIVE FindFrom_keep_first(_, _, _, _, _)
FindFrom_keep_first(ps, cards, i, winingPlayers, highestCard) ==
    IF i > Len(cards) THEN winingPlayers
    ELSE IF cards[i].number = 0
         THEN FindFrom_keep_first(ps, cards, i + 1, winingPlayers, highestCard)
    ELSE IF Card_gt(cards[i], highestCard)
         THEN FindFrom_keep_first(ps, cards, i + 1, <<ps[i]>>, cards[i])
    ELSE FindFrom_keep_first(ps, cards, i + 1, winingPlayers, highestCard)

RECURSIVE FindFrom(_, _, _, _, _)
FindFrom(ps, cards, i, winingPlayers, highestCard) ==
    IF i > Len(cards) THEN winingPlayers
    ELSE IF cards[i].number = 0
         THEN FindFrom(ps, cards, i + 1, winingPlayers, highestCard)
    ELSE IF Card_gt(cards[i], highestCard)
         THEN FindFrom(ps, cards, i + 1, <<ps[i]>>, cards[i])
    ELSE IF Card_eq(cards[i], highestCard)
         THEN FindFrom(ps, cards, i + 1, Append(winingPlayers, ps[i]), highestCard)
    ELSE FindFrom(ps, cards, i + 1, winingPlayers, highestCard)

find_winning_players(ps, cards) == FindFrom(ps, cards, 1, <<>>, Sentinel)

\* award_cards without the card.number != 0 filters
award_cards_with_sentinels(w, cards, fld) == (w \o cards) \o fld

\* award_cards that awards the cards of the field only
award_cards_field_only(w, cards, fld) == w \o SelectSeqNonSentinel(fld)

\* award_cards that awards the played cards only
award_cards_no_field(w, cards, fld) == w \o SelectSeqNonSentinel(cards)

award_cards(w, cards, fld) ==
    (w \o SelectSeqNonSentinel(cards)) \o SelectSeqNonSentinel(fld)

RECURSIVE SumScores(_, _, _)
SumScores(ps, h, w) ==
    IF ps = <<>> THEN 0
    ELSE PlayerScore(h[Head(ps)], w[Head(ps)]) + SumScores(Tail(ps), h, w)

\* update_scoreboard that numbers the rows instead of recording self.round
update_scoreboard_row_index(sc, rnd, h, w) ==
    Append(sc, [Round  |-> Len(sc),
                Scores |-> [p \in DOMAIN h |-> PlayerScore(h[p], w[p])],
                Total  |-> SumScores(players, h, w)])

\* update_scoreboard with the Total column fixed at the size of the deck
update_scoreboard_total_52(sc, rnd, h, w) ==
    Append(sc, [Round  |-> rnd,
                Scores |-> [p \in DOMAIN h |-> PlayerScore(h[p], w[p])],
                Total  |-> WinScore])

\* update_scoreboard that overwrites the latest row
update_scoreboard_overwrite(sc, rnd, h, w) ==
    LET row == [Round  |-> rnd,
                Scores |-> [p \in DOMAIN h |-> PlayerScore(h[p], w[p])],
                Total  |-> SumScores(players, h, w)]
    IN IF sc = <<>> THEN <<row>> ELSE [sc EXCEPT ![Len(sc)] = row]

\* the row update_scoreboard appends, for holdings h, w and round counter rnd
update_scoreboard(sc, rnd, h, w) ==
    Append(sc, [Round  |-> rnd,
                Scores |-> [p \in DOMAIN h |-> PlayerScore(h[p], w[p])],
                Total  |-> SumScores(players, h, w)])

\* isWinner with a strict comparison
isWinner_above_52 == \E p \in Range(players) : PlayerScore(hand[p], won_cards[p]) > WinScore

isWinner == \E p \in Range(players) : PlayerScore(hand[p], won_cards[p]) >= WinScore

Holdings(p) == Range(hand[p]) \cup Range(won_cards[p])

\* ---- the program --------------------------------------------------------
Init ==
    /\ pc = "new"
    /\ playersCount \in 0..MaxPlayers
    /\ attrs = {}
    /\ players = <<>>
    /\ hand = <<>>
    /\ won_cards = <<>>
    /\ round = 0
    /\ score = <<>>
    /\ active = <<>>
    /\ field = <<>>
    /\ playedCards = <<>>
    /\ depth = 0
    /\ rng \in 0..MaxSeed
    /\ default_field = <<>>
    /\ by_default = FALSE
    /\ roundStart = <<>>
    /\ completed = 0

\* cardsWar(playersCount) with an accepted count
NewGame ==
    /\ pc = "new"
    /\ ValidCount(playersCount)
    /\ players' = [i \in 1..playersCount |-> i]
    /\ hand' = [i \in 1..playersCount |-> <<>>]
    /\ won_cards' = [i \in 1..playersCount |-> <<>>]
    /\ round' = 0
    /\ score' = <<>>
    /\ attrs' = {"players", "round", "scoreSchema", "score", "latestResults"}
    /\ pc' = "constructed"
    /\ UNCHANGED <<playersCount, default_field, by_default, active, field,
                   playedCards, depth, rng, roundStart, completed>>

\* cardsWar(playersCount) with a rejected count: the assert raises
AssertionError ==
    /\ pc = "new"
    /\ ~ValidCount(playersCount)
    /\ pc' = "failed"
    /\ UNCHANGED <<playersCount, default_field, by_default, attrs, players,
                   hand, won_cards, round, score, active, field, playedCards,
                   depth, rng, roundStart, completed>>

\* playGame: self.distributeCards()
distributeCards ==
    /\ pc = "constructed"
    /\ LET deck == CreateShuffleDeck(rng)
           cardsPerPlayer == Len(deck) \div Len(players)
       IN hand' = [i \in DOMAIN hand |->
                     Deque(hand[i] \o Slice(deck, (i - 1) * cardsPerPlayer,
                                                  i * cardsPerPlayer))]
    /\ rng' = NextRng(rng)
    /\ pc' = "dealt"
    /\ UNCHANGED <<playersCount, default_field, by_default, attrs, players,
                   won_cards, round, score, active, field, playedCards, depth,
                   roundStart, completed>>

\* playGame: the self.update_scoreboard() that follows the deal
FirstRow ==
    /\ pc = "dealt"
    /\ score' = update_scoreboard(score, round, hand, won_cards)
    /\ pc' = "loop"
    /\ UNCHANGED <<playersCount, default_field, by_default, attrs, players,
                   hand, won_cards, round, active, field, playedCards, depth,
                   rng, roundStart, completed>>

\* playGame: isWinner() is true, the loop ends and the table is written
GameOver ==
    /\ pc = "loop"
    /\ isWinner
    /\ pc' = "done"
    /\ UNCHANGED <<playersCount, default_field, by_default, attrs, players,
                   hand, won_cards, round, score, active, field, playedCards,
                   depth, rng, roundStart, completed>>

\* the loop of playGame calling playRound with the players that still have cards
LoopPlayRound_skip_eliminated ==
    /\ pc = "loop"
    /\ ~isWinner
    /\ round < MaxRounds
    /\ active' = SelectSeq(players, LAMBDA p : PlayerScore(hand[p], won_cards[p]) > 0)
    /\ field' = <<>>
    /\ depth' = 1
    /\ by_default' = FALSE
    /\ roundStart' = [p \in DOMAIN hand |-> Holdings(p)]
    /\ pc' = "play"
    /\ UNCHANGED <<playersCount, default_field, attrs, players, hand, won_cards,
                   round, score, playedCards, rng, completed>>

\* playGame: isWinner() is false, self.playRound(self.players, []) is called
LoopPlayRound ==
    /\ pc = "loop"
    /\ ~isWinner
    /\ round < MaxRounds
    /\ active' = players
    /\ field' = <<>>
    /\ depth' = 1
    /\ by_default' = FALSE
    /\ roundStart' = [p \in DOMAIN hand |-> Holdings(p)]
    /\ pc' = "play"
    /\ UNCHANGED <<playersCount, default_field, attrs, players, hand, won_cards,
                   round, score, playedCards, rng, completed>>

\* playRound: the counter is incremented and every active player plays
playRound ==
    /\ pc = "play"
    /\ round' = round + 1
    /\ \E st \in {PlayAll(active)} :
          /\ hand' = st.hand
          /\ won_cards' = st.won_cards
          /\ rng' = st.rng
          /\ playedCards' = st.cards
    /\ pc' = "resolve"
    /\ UNCHANGED <<playersCount, default_field, by_default, attrs, players,
                   score, active, field, depth, roundStart, completed>>

\* breakDraw in which every player of the round draws, tied or not
breakDraw_all_draw ==
    /\ pc = "resolve"
    /\ \E winingPlayers \in {find_winning_players(active, playedCards)} :
          /\ Len(winingPlayers) > 1
          /\ \E st \in {PlayAll(active)} :
                /\ field' = (field \o playedCards) \o st.cards
                /\ hand' = st.hand
                /\ won_cards' = st.won_cards
                /\ rng' = st.rng
          /\ active' = winingPlayers
    /\ default_field' = IF by_default THEN field' ELSE default_field
    /\ playedCards' = <<>>
    /\ depth' = depth + 1
    /\ pc' = "play"
    /\ UNCHANGED <<playersCount, by_default, attrs, players, round, score, roundStart, completed>>

\* playRound: more than one winner, breakDraw extends the field in place (the
\* default object too when the field is that object) and recurses
breakDraw ==
    /\ pc = "resolve"
    /\ \E winingPlayers \in {find_winning_players(active, playedCards)} :
          /\ Len(winingPlayers) > 1
          /\ \E st \in {PlayAll(winingPlayers)} :
                /\ field' = (field \o playedCards) \o st.cards
                /\ hand' = st.hand
                /\ won_cards' = st.won_cards
                /\ rng' = st.rng
          /\ active' = winingPlayers
    /\ default_field' = IF by_default THEN field' ELSE default_field
    /\ playedCards' = <<>>
    /\ depth' = depth + 1
    /\ pc' = "play"
    /\ UNCHANGED <<playersCount, by_default, attrs, players, round, score, roundStart, completed>>

\* playRound: one winner, the cards are awarded and a row is appended;
\* every frame of the recursion returns
Award ==
    /\ pc = "resolve"
    /\ \E winingPlayers \in {find_winning_players(active, playedCards)} :
          /\ Len(winingPlayers) = 1
          /\ LET winner == winingPlayers[1]
             IN won_cards' = [won_cards EXCEPT
                    ![winner] = award_cards(won_cards[winner], playedCards, field)]
          /\ score' = update_scoreboard(score, round, hand, won_cards')
    /\ playedCards' = <<>>
    /\ field' = <<>>
    /\ active' = <<>>
    /\ depth' = 0
    /\ completed' = completed + 1
    /\ pc' = "loop"
    /\ UNCHANGED <<playersCount, default_field, by_default, attrs, players,
                   hand, round, rng, roundStart>>

\* playRound: no winner, winingPlayers[0] raises IndexError
IndexError ==
    /\ pc = "resolve"
    /\ Len(find_winning_players(active, playedCards)) = 0
    /\ pc' = "crashed"
    /\ UNCHANGED <<playersCount, default_field, by_default, attrs, players,
                   hand, won_cards, round, score, active, field, playedCards,
                   depth, rng, roundStart, completed>>

Next ==
    \/ NewGame
    \/ AssertionError
    \/ distributeCards
    \/ FirstRow
    \/ GameOver
    \/ LoopPlayRound
    \/ playRound
    \/ breakDraw
    \/ Award
    \/ IndexError

Spec == Init /\ [][Next]_vars

\* ---- playRound called with the field argument left out ------------------
\* game.playRound(game.players): field is bound to the default list object,
\* which was created once, when the function was defined
DefaultPlayRound ==
    /\ pc = "loop"
    /\ ~isWinner
    /\ round < MaxRounds
    /\ active' = players
    /\ field' = default_field
    /\ depth' = 1
    /\ by_default' = TRUE
    /\ roundStart' = [p \in DOMAIN hand |-> Holdings(p)]
    /\ pc' = "play"
    /\ UNCHANGED <<playersCount, default_field, attrs, players, hand, won_cards,
                   round, score, playedCards, rng, completed>>

\* the loop of playGame written without the field argument
DefaultNext ==
    \/ NewGame
    \/ AssertionError
    \/ distributeCards
    \/ FirstRow
    \/ GameOver
    \/ DefaultPlayRound
    \/ playRound
    \/ breakDraw
    \/ Award
    \/ IndexError

DefaultSpec == Init /\ [][DefaultNext]_vars

\* ---- cardsWar(2).playGame() on a deal where Player 1 is always higher ----
Reverse(s) == [i \in 1..Len(s) |-> s[Len(s) + 1 - i]]

SwapHalves(s) == SubSeq(s, (Len(s) \div 2) + 1, Len(s)) \o SubSeq(s, 1, Len(s) \div 2)

\* the deck d gives the first of two players the higher rank at every position
FirstAlwaysHigher(d) ==
    \A i \in 1..(Len(d) \div 2) : Card_gt(d[i], d[(Len(d) \div 2) + i])

\* orders of the deck in which random.shuffle can leave it, kept when the
\* first player is always higher
ScenarioDecks ==
    {d \in {SwapHalves(CreateShuffleDeck(r)) : r \in 0..MaxSeed}
            \cup {Reverse(CreateShuffleDeck(r)) : r \in 0..MaxSeed} :
        FirstAlwaysHigher(d)}

\* the state after cardsWar(2) and distributeCards() on one of these decks
ScenarioInit ==
    /\ pc = "dealt"
    /\ playersCount = 2
    /\ attrs = {"players", "round", "scoreSchema", "score", "latestResults"}
    /\ players = <<1, 2>>
    /\ \E deck \in ScenarioDecks :
          hand = [i \in 1..2 |->
                    Deque(Slice(deck, (i - 1) * (Len(deck) \div 2), i * (Len(deck) \div 2)))]
    /\ won_cards = [i \in 1..2 |-> <<>>]
    /\ round = 0
    /\ score = <<>>
    /\ active = <<>>
    /\ field = <<>>
    /\ playedCards = <<>>
    /\ depth = 0
    /\ rng \in 0..MaxSeed
    /\ default_field = <<>>
    /\ by_default = FALSE
    /\ roundStart = <<>>
    /\ completed = 0

\* the steps of playGame these runs take: no round of theirs ties or is empty
ScenarioNext ==
    \/ FirstRow
    \/ GameOver
    \/ LoopPlayRound
    \/ playRound
    \/ Award

ScenarioSpec == ScenarioInit /\ [][ScenarioNext]_vars

\* ---- find_winning_players called on its own -----------------------------
\* the lists of n of the players, in player order
RECURSIVE PlayerLists(_)
PlayerLists(n) ==
    IF n = 0 THEN {<<>>}
    ELSE PlayerLists(n - 1) \cup {Append(ps, n) : ps \in PlayerLists(n - 1)}

\* the cards the player at position i of a list may have played: the
\* sentinel or a card of the deck, different cards at different positions
FindCards(i) ==
    {Sentinel} \cup {Card(r, Colors[((i - 1) % Len(Colors)) + 1]) : r \in 1..MaxFindRank}

\* a game object and the arguments of one find_winning_players call
FindInit ==
    /\ pc = "find"
    /\ playersCount = MaxFindPlayers
    /\ attrs = {"players", "round", "scoreSchema", "score", "latestResults"}
    /\ players = [i \in 1..MaxFindPlayers |-> i]
    /\ hand = [i \in 1..MaxFindPlayers |-> <<>>]
    /\ won_cards = [i \in 1..MaxFindPlayers |-> <<>>]
    /\ round = 0
    /\ score = <<>>
    /\ active \in PlayerLists(MaxFindPlayers)
    /\ playedCards \in [1..Len(active) -> UNION {FindCards(i) : i \in 1..MaxFindPlayers}]
    /\ \A i \in 1..Len(active) : playedCards[i] \in FindCards(i)
    /\ field = <<>>
    /\ depth = 1
    /\ rng = 0
    /\ default_field = <<>>
    /\ by_default = FALSE
    /\ roundStart = <<>>
    /\ completed = 0

\* winingPlayers = self.find_winning_players(players, playedCards); the
\* result is kept in active, as the players of the call breakDraw would make
FindWinners ==
    /\ pc = "find"
    /\ active' = find_winning_players(active, playedCards)
    /\ pc' = "found"
    /\ UNCHANGED <<playersCount, default_field, by_default, attrs, players, hand, won_cards,
                   round, score, field, playedCards, depth, rng, roundStart, completed>>

FindSpec == FindInit /\ [][FindWinners]_vars

\* ---- class Player driven through its methods ----------------------------
\* One Player object on which hand.extend, won_cards.extend, playCard and
\* refill_hand are called in any order, with cards of the deck it does not hold.
ApiCards == {SortedDeck[i] : i \in 1..MaxApiCards}

PlayerInit ==
    /\ pc = "api"
    /\ playersCount = 1
    /\ attrs = {}
    /\ players = <<1>>
    /\ hand = <<(<<>>)>>
    /\ won_cards = <<(<<>>)>>
    /\ round = 0
    /\ score = <<>>
    /\ active = <<>>
    /\ field = <<>>
    /\ playedCards = <<>>
    /\ depth = 0
    /\ rng \in 0..MaxSeed
    /\ default_field = <<>>
    /\ by_default = FALSE
    /\ roundStart = <<>>
    /\ completed = 0

\* player.hand.extend([c]), as distributeCards does
ApiDeal ==
    /\ pc = "api"
    /\ \E c \in ApiCards \ Holdings(1) : hand' = [hand EXCEPT ![1] = Deque(@ \o <<c>>)]
    /\ UNCHANGED <<pc, playersCount, default_field, by_default, attrs, players,
                   won_cards, round, score, active, field, playedCards, depth,
                   rng, roundStart, completed>>

\* player.won_cards.extend([c]), as award_cards does
ApiAward ==
    /\ pc = "api"
    /\ \E c \in ApiCards \ Holdings(1) :
        won_cards' = [won_cards EXCEPT ![1] = award_cards(@, <<c>>, <<>>)]
    /\ UNCHANGED <<pc, playersCount, default_field, by_default, attrs, players,
                   hand, round, score, active, field, playedCards, depth, rng,
                   roundStart, completed>>

\* player.playCard(); the card returned is kept in playedCards
ApiPlayCard ==
    /\ pc = "api"
    /\ LET r == playCard(hand[1], won_cards[1], rng)
       IN /\ hand' = [hand EXCEPT ![1] = r.hand]
          /\ won_cards' = [won_cards EXCEPT ![1] = r.won_cards]
          /\ rng' = r.rng
          /\ playedCards' = <<r.card>>
    /\ UNCHANGED <<pc, playersCount, default_field, by_default, attrs, players,
                   round, score, active, field, depth, roundStart, completed>>

\* player.refill_hand()
ApiRefill ==
    /\ pc = "api"
    /\ LET r == refill_hand(hand[1], won_cards[1], rng)
       IN /\ hand' = [hand EXCEPT ![1] = r.hand]
          /\ won_cards' = [won_cards EXCEPT ![1] = r.won_cards]
          /\ rng' = r.rng
    /\ playedCards' = <<>>
    /\ UNCHANGED <<pc, playersCount, default_field, by_default, attrs, players,
                   round, score, active, field, depth, roundStart, completed>>

PlayerNext ==
    \/ ApiDeal
    \/ ApiAward
    \/ ApiPlayCard
    \/ ApiRefill

PlayerSpec == PlayerInit /\ [][PlayerNext]_vars

\* the game under the scheduling of a sequential program: it runs while it can
FairSpec == Spec /\ WF_vars(Next)

\* ---- vocabulary of the properties ---------------------------------------
NumCards == NumRanks * Len(Colors)

RealCards(s) == {c \in Range(s) : c.number # 0}

RealCount(s) == Len(SelectSeqNonSentinel(s))

ScoreOf(p) == PlayerScore(hand[p], won_cards[p])

TotalScore == SumScores(players, hand, won_cards)

AllHoldings == UNION {Holdings(p) : p \in DOMAIN hand}

\* the whole deck was dealt: the player count divides the number of cards
FullDeal == Len(players) > 0 /\ Len(players) * (NumCards \div Len(players)) = NumCards

Dealt == pc \in {"dealt", "loop", "play", "resolve", "done", "crashed"}

InRound == pc \in {"play", "resolve"}

PlayStep == pc = "play" /\ pc' = "resolve"

WarStep == pc = "resolve" /\ pc' = "play"

AwardStep == pc = "resolve" /\ pc' = "loop"

\* the player counts the claims call accepted: at least 2 and a divisor of 56
AcceptedCounts == {n \in 2..Divisor : \E k \in 1..Divisor : n * k = Divisor}

\* ---- C1 -----------------------------------------------------------------
\* C1: once the cards are dealt, with any accepted player count, the sum of all
\* players' scores plus the real cards in flight (the cards played in the
\* running round and the cards in the war field) is 52 in every state.
C1_ScoreConservation ==
    Dealt => TotalScore + RealCount(playedCards) + RealCount(field) = 52

\* What the code conserves: the cards that distributeCards dealt, which are
\* cardsPerPlayer cards for each player.
DealtCardsConserved ==
    Dealt => TotalScore + RealCount(playedCards) + RealCount(field)
                 = Len(players) * (NumCards \div Len(players))

\* ---- C2 -----------------------------------------------------------------
\* C2: from a full deal no playRound call, top-level or war sub-round, has
\* every active player play the sentinel: find_winning_players is never empty
\* and winingPlayers[0] is never evaluated on an empty list.
C2_NoAllSentinelRound ==
    FullDeal =>
        /\ pc = "resolve" =>
            /\ \E i \in 1..Len(playedCards) : playedCards[i].number # 0
            /\ find_winning_players(active, playedCards) # <<>>
        /\ pc # "crashed"

\* ---- C3 -----------------------------------------------------------------
\* C3: a round that enters a war runs only finitely many nested playRound /
\* breakDraw steps: every war layer puts at least two more real cards of the
\* deck in the field, so the nesting is bounded by the cards, and the round
\* ends either with the award to a single winner or with every tied player
\* at zero cards.
AllTiedAtZero == \A p \in Range(active) : ScoreOf(p) = 0

C3_WarTerminates ==
    /\ [](InRound => /\ 2 * (depth - 1) <= RealCount(field)
                     /\ RealCount(field) <= NumCards)
    /\ [](pc = "crashed" => AllTiedAtZero)
    /\ (InRound ~> (pc = "loop" \/ (pc = "crashed" /\ AllTiedAtZero)))

C3_Witness ==
    /\ pc = "resolve"
    /\ depth >= 3
    /\ Len(find_winning_players(active, playedCards)) = 1

\* ---- C4 -----------------------------------------------------------------
\* C4: the loop runs until one player holds the entire deck: when the loop
\* tests isWinner and one player holds every card of the game (all others
\* have score 0), that player's score is >= 52 and no further round is played.
C4_LoopEndsWithWholeDeck ==
    (pc = "loop" /\ \E p \in Range(players) :
                        \A q \in Range(players) \ {p} : ScoreOf(q) = 0)
        => isWinner

RECURSIVE Concat(_, _)
Concat(ps, h) == IF ps = <<>> THEN <<>> ELSE h[Head(ps)] \o Concat(Tail(ps), h)

C6_DealsWholeDeck ==
    /\ pc = "dealt" =>
        /\ \A p, q \in Range(players) : Len(hand[p]) = Len(hand[q])
        /\ \A p, q \in Range(players) :
               p # q => Range(hand[p]) \cap Range(hand[q]) = {}
        /\ \E r \in 0..MaxSeed :
               Concat(players, hand) =
                   SubSeq(CreateShuffleDeck(r), 1, Len(Concat(players, hand)))
        /\ Len(Concat(players, hand)) = 52
        /\ Range(Concat(players, hand)) = Range(SortedDeck)
    /\ (pc = "loop" /\ Len(score) = 1) => score[1].Round = 0 /\ score[1].Total = 52

\* ---- C7 -----------------------------------------------------------------
\* C7: a player whose score is 0 when asked to play (in playRound or for the
\* war draw of breakDraw) plays the sentinel and its hand and won pile do not
\* change; a player with cards plays a real card; and the player who is
\* awarded the cards of a round never played the sentinel in it.
C7_ZeroScorePlaysSentinel ==
    [][ /\ PlayStep =>
            \A i \in 1..Len(active) :
                LET p == active[i] IN
                /\ (ScoreOf(p) = 0) <=> (playedCards'[i] = Sentinel)
                /\ ScoreOf(p) = 0 =>
                       hand'[p] = hand[p] /\ won_cards'[p] = won_cards[p]
        /\ WarStep =>
            \A i \in 1..Len(active') :
                LET p == active'[i]
                    drawn == field'[Len(field) + Len(playedCards) + i]
                IN /\ (ScoreOf(p) = 0) <=> (drawn = Sentinel)
                   /\ ScoreOf(p) = 0 =>
                          hand'[p] = hand[p] /\ won_cards'[p] = won_cards[p]
        /\ AwardStep =>
            \A i \in 1..Len(active) :
                playedCards[i] = Sentinel =>
                    /\ won_cards'[active[i]] = won_cards[active[i]]
                    /\ hand'[active[i]] = hand[active[i]]
      ]_vars

C7_Witness ==
    /\ pc = "resolve"
    /\ \E i \in 1..Len(playedCards) : playedCards[i] = Sentinel
    /\ Len(find_winning_players(active, playedCards)) = 1

\* ---- C8 -----------------------------------------------------------------
\* C8: refill_hand has no precondition: after any call the won pile is empty,
\* the hand has as many cards as the won pile had, and the cards the player
\* holds (hand plus won pile) are the same as before the call.
C8_RefillPreservesHoldings ==
    [][ ApiRefill =>
            /\ won_cards'[1] = <<>>
            /\ Len(hand'[1]) = Len(won_cards[1])
            /\ Range(hand'[1]) \cup Range(won_cards'[1]) = Holdings(1)
      ]_vars

\* ---- C9 -----------------------------------------------------------------
\* C9: when a round is resolved with a single winner, after any number of war
\* layers, the winner's won pile gains exactly the real cards that left any
\* player's holdings since the round began (every card played or drawn in
\* every layer, also by players who were not tied), each once, and no other
\* hand or won pile changes.
C9_WarAward ==
    [][ AwardStep =>
            LET gained == RealCards(playedCards) \cup RealCards(field)
                left == (UNION {roundStart[p] : p \in DOMAIN roundStart})
                            \ AllHoldings
            IN /\ gained = left
               /\ hand' = hand
               /\ \E w \in Range(active) :
                    /\ Range(won_cards'[w]) = Range(won_cards[w]) \cup gained
                    /\ Len(won_cards'[w]) = Len(won_cards[w]) + Cardinality(gained)
                    /\ \A p \in DOMAIN won_cards \ {w} :
                           won_cards'[p] = won_cards[p]
      ]_vars

C9_Witness ==
    /\ pc = "resolve"
    /\ depth >= 2
    /\ Len(active) < Len(players)
    /\ Len(find_winning_players(active, playedCards)) = 1

\* ---- C10 ----------------------------------------------------------------
\* C10: a row is appended exactly when a top-level playRound call returns,
\* never by a war sub-round before the war is resolved; rows are never
\* changed or removed; after the deal and k completed top-level rounds the
\* scoreboard has k + 1 rows.
C10_RowsPerRound ==
    /\ [][ /\ AwardStep => Len(score') = Len(score) + 1
           /\ (~AwardStep /\ pc # "dealt") => score' = score
           /\ Len(score') >= Len(score)
           /\ SubSeq(score', 1, Len(score)) = score
         ]_vars
    /\ [](pc \in {"loop", "play", "resolve", "done", "crashed"} =>
              Len(score) = completed + 1)

C10_Witness ==
    /\ pc = "loop"
    /\ completed >= 2
    /\ round > completed
    /\ Len(score) = completed + 1

\* ---- C11 ----------------------------------------------------------------
\* C11: in every row of the scoreboard the Total column is the sum of the
\* row's per-player columns, and when a row is appended each per-player
\* column is that player's score (|hand| + |won_cards|) at that moment.
RECURSIVE SumTo(_, _)
SumTo(f, n) == IF n = 0 THEN 0 ELSE f[n] + SumTo(f, n - 1)

C11_ScoreboardConsistent ==
    /\ [](\A i \in 1..Len(score) :
              score[i].Total = SumTo(score[i].Scores, Len(score[i].Scores)))
    /\ [][ Len(score') = Len(score) + 1 =>
               LET row == score'[Len(score')]
               IN /\ DOMAIN row.Scores = DOMAIN hand'
                  /\ \A p \in DOMAIN hand' :
                         row.Scores[p] = Len(hand'[p]) + Len(won_cards'[p])
         ]_vars

C11_Witness ==
    /\ pc = "loop"
    /\ Len(score) >= 3
    /\ score[Len(score)].Scores # score[1].Scores
    /\ score[Len(score)].Total = 49

\* ---- C15 ----------------------------------------------------------------
\* C15: every top-level playRound call, from the playGame loop or with the
\* field argument left at its default, starts with an empty field, so the
\* cards of one round's war are never awarded again in a later round and the
\* players never hold more cards than the deck has.
C15_TopLevelFieldEmpty ==
    /\ (pc = "play" /\ depth = 1) => field = <<>>
    /\ Dealt => TotalScore <= NumCards

\* ---- C12 ----------------------------------------------------------------
\* C12 as stated: in a 2-player game, a top-level round in which both players
\* play the same rank while each holds at least one more card triggers one
\* war layer, after which the field holds exactly 4 cards (the 2 played and
\* the 2 drawn), and the winner's won pile grows by exactly the cards of the
\* field: 4, plus the cards further nested wars added to the field.
TwoPlayerTie ==
    /\ playersCount = 2
    /\ pc = "resolve"
    /\ depth = 1
    /\ Len(find_winning_players(active, playedCards)) = 2
    /\ \A p \in Range(players) : ScoreOf(p) >= 1

C12_WinnerGainsField ==
    [][ /\ (TwoPlayerTie /\ WarStep) =>
            /\ depth' = 2
            /\ Len(field') = 4 /\ RealCount(field') = 4
        /\ (AwardStep /\ playersCount = 2 /\ depth >= 2 /\ RealCount(SubSeq(field, 1, 4)) = 4) =>
            \E w \in Range(active) :
                Len(won_cards'[w]) = Len(won_cards[w]) + RealCount(field)
      ]_vars

\* C12 amended: the war layer and the 4 cards of the field are as stated, and
\* the winner's won pile grows by the cards of the field (4, plus those of
\* further nested wars) plus the real cards played in the sub-round that
\* decided the war, which were never in the field.
C12_WinnerGainsFieldAndPlayed ==
    [][ /\ (TwoPlayerTie /\ WarStep) =>
            /\ depth' = 2
            /\ active' = players
            /\ Len(field') = 4 /\ RealCount(field') = 4
            /\ SubSeq(field', 1, 2) = playedCards
        /\ (AwardStep /\ playersCount = 2 /\ depth >= 2 /\ RealCount(SubSeq(field, 1, 4)) = 4) =>
            /\ RealCount(playedCards) \in 1..2
            /\ RealCount(field) >= 4
            /\ \E w \in Range(active) :
                Len(won_cards'[w]) =
                    Len(won_cards[w]) + RealCount(field) + RealCount(playedCards)
      ]_vars

C12_Witness ==
    /\ playersCount = 2
    /\ pc = "resolve"
    /\ depth = 2
    /\ RealCount(field) = 4
    /\ Len(find_winning_players(active, playedCards)) = 1

\* ---- C13 ----------------------------------------------------------------
\* C13: in a 2-player game whose deal gives Player 1 the strictly higher rank
\* at each of the 26 positions, every round has Player 1 as its single winner
\* (no war, no empty round), isWinner is false before 26 rounds are completed
\* and true after them, Player 1 then has 52 and Player 2 has 0, and the game
\* ends with 27 rows on the scoreboard.
C13_NoTieGame ==
    /\ pc = "dealt" => \A i \in 1..26 : Card_gt(hand[1][i], hand[2][i])
    /\ pc = "resolve" =>
        /\ depth = 1
        /\ find_winning_players(active, playedCards) = <<1>>
    /\ completed <= 26
    /\ (\E p \in 1..2 : ScoreOf(p) >= 52) <=> (pc \in {"loop", "done"} /\ completed = 26)
    /\ pc = "play" => completed < 26
    /\ (pc = "loop" /\ completed = 26) =>
        /\ round = 26
        /\ ScoreOf(1) = 52 /\ ScoreOf(2) = 0
    /\ pc = "loop" => Len(score) = completed + 1
    /\ pc = "done" =>
        /\ Len(score) = 27
        /\ score[27].Round = 26
        /\ score[27].Scores = <<52, 0>>

C13_Witness ==
    /\ pc = "done"
    /\ completed = 26
    /\ Len(score) = 27
    /\ ScoreOf(1) = 52

\* ---- C14 ----------------------------------------------------------------
\* C14: for every list of played cards find_winning_players returns exactly
\* the players, in player order and each once, whose card has the maximum
\* rank among the played cards that are not the sentinel; a player who played
\* the sentinel is never returned, and the result is empty iff every played
\* card is the sentinel.
MaxRankPositions(cards) ==
    {i \in 1..Len(cards) :
        /\ cards[i].number # 0
        /\ \A j \in 1..Len(cards) : cards[j].number <= cards[i].number}

C14_WinnersAreMaxRank ==
    [][ FindWinners =>
            LET won == MaxRankPositions(playedCards) IN
            /\ Range(active') = {active[i] : i \in won}
            /\ Len(active') = Cardinality(won)
            /\ \A a, b \in 1..Len(active') : a < b => active'[a] < active'[b]
            /\ \A i \in 1..Len(playedCards) :
                   playedCards[i] = Sentinel => active[i] \notin Range(active')
            /\ (active' = <<>>) <=> (\A i \in 1..Len(playedCards) : playedCards[i] = Sentinel)
      ]_vars

C14_Witness ==
    /\ pc = "found"
    /\ Len(playedCards) = 4
    /\ playedCards[1] = Sentinel
    /\ playedCards[2].number = 2 /\ playedCards[3].number = 1 /\ playedCards[4].number = 2
    /\ active = <<2, 4>>

\* ---- C16 ----------------------------------------------------------------
\* C16: when a round ties, the players of the war sub-round are exactly the
\* players tied at the maximum rank, and only they draw a face-down card: the
\* field gains the round's played cards, one per player of the round, and one
\* draw per tied player.  A player who is not in the running call (it was
\* not tied in an earlier layer) has its hand and won pile unchanged by every
\* later step of the round, the award included: the winner is a player of
\* the deciding call.
C16_OnlyTiedPlayersDraw ==
    [][ /\ WarStep =>
            LET tied == {active[i] : i \in MaxRankPositions(playedCards)} IN
            /\ Range(active') = tied
            /\ Len(active') = Cardinality(tied)
            /\ Len(field') = Len(field) + Len(active) + Len(active')
            /\ SubSeq(field', Len(field) + 1, Len(field) + Len(active)) = playedCards
            /\ \A p \in Range(players) \ tied :
                   hand'[p] = hand[p] /\ won_cards'[p] = won_cards[p]
            /\ \A p \in tied :
                   Len(hand'[p]) + Len(won_cards'[p]) =
                       IF ScoreOf(p) = 0 THEN 0 ELSE ScoreOf(p) - 1
        /\ InRound =>
            \A p \in Range(players) \ Range(active) :
                hand'[p] = hand[p] /\ won_cards'[p] = won_cards[p]
      ]_vars

C16_Witness ==
    /\ pc = "play"
    /\ depth = 2
    /\ Len(players) = 4
    /\ Len(active) = 2
    /\ \E p \in Range(players) \ Range(active) : ScoreOf(p) > 0

\* ---- C17 ----------------------------------------------------------------
\* C17: the round counter starts at 0, every playRound call (top-level or war
\* sub-round) adds exactly one to it and nothing else changes it, so it is
\* the number of playRound calls made so far; the first row of the
\* scoreboard has Round 0, the Round values of successive rows are strictly
\* increasing, and a row is appended with the counter's value as its Round.
C17_RoundNumbering ==
    /\ [](pc \in {"new", "failed", "constructed", "dealt"} => round = 0)
    /\ [][ /\ PlayStep => round' = round + 1
           /\ ~PlayStep => round' = round
           /\ Len(score') = Len(score) + 1 => score'[Len(score')].Round = round'
         ]_vars
    /\ [](Len(score) >= 1 => score[1].Round = 0)
    /\ [](\A i \in 1..(Len(score) - 1) : score[i].Round < score[i + 1].Round)
    /\ [](pc = "loop" => score[Len(score)].Round = round)

C17_Witness ==
    /\ pc = "loop"
    /\ Len(score) >= 3
    /\ score[Len(score)].Round = round
    /\ score[Len(score)].Round >= score[Len(score) - 1].Round + 2

\* ---- C18 ----------------------------------------------------------------
\* C18: a player whose score is 0 in a row of the scoreboard has score 0 in
\* every later row; from that row on the player holds no card in any state,
\* stays in the player list, and is among the players of every top-level
\* playRound call.
Eliminated(p) == Len(score) >= 1 /\ score[Len(score)].Scores[p] = 0

C18_EliminationPermanent ==
    /\ [](\A i, j \in 1..Len(score) : \A p \in DOMAIN score[i].Scores :
              (i < j /\ score[i].Scores[p] = 0) => score[j].Scores[p] = 0)
    /\ [](\A p \in Range(players) : Eliminated(p) => hand[p] = <<>> /\ won_cards[p] = <<>>)
    /\ [](pc \notin {"new", "failed"} => players = [i \in 1..playersCount |-> i])
    /\ [][ (pc = "loop" /\ pc' = "play") => active' = players ]_vars
    /\ [](pc = "resolve" =>
              \A i \in 1..Len(active) : Eliminated(active[i]) => playedCards[i] = Sentinel)

C18_Witness ==
    /\ pc = "loop"
    /\ Len(score) >= 3
    /\ \E p \in Range(players) :
          /\ score[1].Scores[p] > 0
          /\ score[Len(score) - 1].Scores[p] = 0
          /\ score[Len(score)].Scores[p] = 0
          /\ ~isWinner

\* ---- C19 ----------------------------------------------------------------
\* C19: in every state of a game run by playGame each card of the deck is in
\* at most one place (a hand, a won pile, the played cards of the running
\* round, the war field), nothing but cards of the deck is held, and no hand
\* reaches the capacity of its deque, 56.
EveryPlace ==
    ((Concat(players, hand) \o Concat(players, won_cards))
        \o SelectSeqNonSentinel(playedCards)) \o SelectSeqNonSentinel(field)

C19_NoCardTwice ==
    /\ Len(EveryPlace) = Cardinality(Range(EveryPlace))
    /\ Range(EveryPlace) \subseteq Range(SortedDeck)
    /\ \A p \in DOMAIN hand : Len(hand[p]) < HandMaxLen

C19_Witness ==
    /\ pc = "resolve"
    /\ RealCount(field) >= 4
    /\ RealCount(playedCards) >= 2
    /\ \E p \in Range(players) : Len(won_cards[p]) > 0
    /\ \E p \in Range(players) : Len(hand[p]) > NumCards \div Len(players)

\* ---- C20 ----------------------------------------------------------------
\* C20: in every state no hand and no won pile contains a rank-0 sentinel,
\* also after a war whose field held sentinels drawn by tied players without
\* cards; so every player's score is the number of real cards it holds.
C20_NoSentinelHeld ==
    \A p \in DOMAIN hand :
        /\ \A i \in 1..Len(hand[p]) : hand[p][i].number # 0
        /\ \A i \in 1..Len(won_cards[p]) : won_cards[p][i].number # 0
        /\ ScoreOf(p) = RealCount(hand[p]) + RealCount(won_cards[p])

C20_Witness ==
    /\ pc = "resolve"
    /\ Sentinel \in Range(field)
    /\ RealCount(field) > 0
    /\ Len(find_winning_players(active, playedCards)) = 1

====
